---- MODULE Spec2Model ----
(***************************************************************************)
(* Model of Script.py: the mule-account analysis pipeline                   *)
(*   load_data -> identifier checks -> clean_data -> merge_datasets         *)
(*   -> create_derived_features -> analyze_fraud_patterns.                  *)
(*                                                                          *)
(* A dataframe is a sequence of rows; a row is a function from column name  *)
(* to cell.  A cell is <<>> when it is null (NaN, None and NaT are all      *)
(* null to isna()) and <<v>> when it holds v.                               *)
(***************************************************************************)
EXTENDS Integers, Sequences, FiniteSets, TLC

\* ------------------------------------------------------------------ bounds
MaxId == 2            \* identifiers are 1..MaxId
MaxRows == 4          \* rows of the three files read, taken together
MaxFrameRows == 2     \* rows of a frame handed to analyze_fraud_patterns
YearLo == 1924        \* earliest birth year of a frame handed to create_derived_features
YearHi == 2028        \* latest birth year (after both sample run dates)

\* ------------------------------------------------------------------- cells
NULL == <<>>
Some(v) == <<v>>
IsNull(c) == c = NULL
Val(c) == c[1]

\* All sequences over S of length lo..hi
SeqsBetween(S, lo, hi) == UNION {[1..n -> S] : n \in lo..hi}

\* ----------------------------------------------------------------- columns
AcctValueColumns ==
  {"AccountLength", "AverageBalance", "NumTransactions", "NumDeposits",
   "NumWithdrawals", "NumTransfers", "NumLoans", "NumCreditCards",
   "NumSavingsAccounts"}

HolderValueColumns ==
  {"DateOfBirth", "Gender", "Income", "CreditScore", "LoanAmount",
   "EmploymentStatus", "MaritalStatus", "OccupancyStatus", "NumDependents",
   "SocialMediaUsageHours", "ShoppingFrequencyPerMonth",
   "HealthInsuranceStatus"}

FraudValueColumns == {"MuleAccount"}

\* A date-of-birth text as read from the CSV: its shape and, for the
\* dd/mm/yyyy shape, the three numbers it spells.
DobText(shape, d, m, y) == [shape |-> shape, d |-> d, m |-> m, y |-> y]
MissingText == DobText("Missing", 0, 0, 0)

\* -------------------------------------------------------------- clean_data
acct_default_vals ==
  [AccountLength |-> -1, AverageBalance |-> -1, NumTransactions |-> -1,
   NumDeposits |-> -1, NumWithdrawals |-> -1, NumTransfers |-> -1,
   NumLoans |-> -1, NumCreditCards |-> -1, NumSavingsAccounts |-> -1]

\* holder defaults with the Gender entry left out
holder_default_vals_no_gender ==
  [DateOfBirth |-> MissingText, Income |-> -1,
   CreditScore |-> -1, LoanAmount |-> -1, EmploymentStatus |-> "Missing",
   MaritalStatus |-> "Missing", OccupancyStatus |-> "Missing",
   NumDependents |-> -1, SocialMediaUsageHours |-> -1,
   ShoppingFrequencyPerMonth |-> -1, HealthInsuranceStatus |-> "Missing"]

holder_default_vals ==
  [DateOfBirth |-> MissingText, Gender |-> "Missing", Income |-> -1,
   CreditScore |-> -1, LoanAmount |-> -1, EmploymentStatus |-> "Missing",
   MaritalStatus |-> "Missing", OccupancyStatus |-> "Missing",
   NumDependents |-> -1, SocialMediaUsageHours |-> -1,
   ShoppingFrequencyPerMonth |-> -1, HealthInsuranceStatus |-> "Missing"]

\* DataFrame.drop_duplicates(): keep the first occurrence of each row
RECURSIVE drop_duplicates(_)
drop_duplicates(df) ==
  IF df = <<>> THEN <<>>
  ELSE LET n == Len(df)
           front == drop_duplicates(SubSeq(df, 1, n - 1))
       IN IF \E i \in 1..(n - 1) : df[i] = df[n] THEN front
          ELSE Append(front, df[n])

\* DataFrame.fillna(value=dict): a null cell of a column the dict names
\* takes the dict's value; every other cell is kept
fillna_dict(df, value) ==
  [i \in DOMAIN df |->
     [c \in DOMAIN df[i] |->
        IF IsNull(df[i][c]) /\ c \in DOMAIN value THEN Some(value[c])
        ELSE df[i][c]]]

\* DataFrame.fillna(scalar): every null cell of every column takes the scalar
fillna_scalar(df, value) ==
  [i \in DOMAIN df |->
     [c \in DOMAIN df[i] |->
        IF IsNull(df[i][c]) THEN Some(value) ELSE df[i][c]]]

clean_acct(acct) == fillna_dict(acct, acct_default_vals)
clean_holder(holder) == fillna_dict(drop_duplicates(holder), holder_default_vals)
clean_fraud(fraud) == fillna_scalar(fraud, 0)

\* ---------------------------------------------------------- merge_datasets
Identifiers(df) == {df[i]["Identifier"] : i \in DOMAIN df}

\* how='inner' in place of how='left': an unmatched left row is dropped
left_join_row_inner(l, right, cols) ==
  LET m == SelectSeq(right, LAMBDA r : r["Identifier"] = l["Identifier"])
  IN [k \in DOMAIN m |-> l @@ [c \in cols |-> m[k][c]]]

\* The rows a left row produces in DataFrame.merge(how='left', on='Identifier'):
\* one per matching right row, in the right frame's order, or a single row
\* with nulls in the right frame's columns when nothing matches.
left_join_row(l, right, cols) ==
  LET m == SelectSeq(right, LAMBDA r : r["Identifier"] = l["Identifier"])
  IN IF m = <<>> THEN << l @@ [c \in cols |-> NULL] >>
     ELSE [k \in DOMAIN m |-> l @@ [c \in cols |-> m[k][c]]]

RECURSIVE merge_left(_, _, _)
merge_left(left, right, cols) ==
  IF left = <<>> THEN <<>>
  ELSE left_join_row(Head(left), right, cols) \o merge_left(Tail(left), right, cols)

\* the defaults applied once more after the joins
merge_datasets_filled(acct, holder, fraud) ==
  fillna_dict(
    merge_left(merge_left(acct, holder, HolderValueColumns), fraud, FraudValueColumns),
    holder_default_vals @@ [MuleAccount |-> 0])

merge_datasets(acct, holder, fraud) ==
  merge_left(merge_left(acct, holder, HolderValueColumns), fraud, FraudValueColumns)

\* ------------------------------------------------- create_derived_features
IsLeap(y) == (y % 4 = 0 /\ y % 100 # 0) \/ y % 400 = 0

DaysInMonth(m, y) ==
  IF m = 2 THEN (IF IsLeap(y) THEN 29 ELSE 28)
  ELSE IF m \in {4, 6, 9, 11} THEN 30 ELSE 31

\* pd.to_datetime(format='%d/%m/%Y', errors='coerce') on one cell: a text
\* that spells a real calendar day as dd/mm/yyyy becomes a timestamp, every
\* other text and null become NaT (null)
to_datetime(c) ==
  IF IsNull(c) THEN NULL
  ELSE LET t == Val(c)
       IN IF t.shape = "dmy" /\ t.m \in 1..12 /\ t.d >= 1 /\ t.d <= DaysInMonth(t.m, t.y)
          THEN Some([year |-> t.y, month |-> t.m, day |-> t.d])
          ELSE NULL

\* attribute access on a Timestamp or on NaT (NaT.year is NaN)
Attr(ts, f) == IF IsNull(ts) THEN NULL ELSE Some(Val(ts)[f])

\* float arithmetic: NaN propagates
FSub(a, b) == IF IsNull(a) \/ IsNull(b) THEN NULL ELSE Some(Val(a) - Val(b))

\* Python's (a1, a2) < (b1, b2): the first position where the elements are
\* not == decides with <; any comparison with NaN is False
NumEq(a, b) == ~IsNull(a) /\ ~IsNull(b) /\ Val(a) = Val(b)
NumLt(a, b) == ~IsNull(a) /\ ~IsNull(b) /\ Val(a) < Val(b)
\* the comparison on the months alone
TupleLt_month_only(a1, a2, b1, b2) == NumLt(a1, b1)

TupleLt(a1, a2, b1, b2) ==
  IF ~NumEq(a1, b1) THEN NumLt(a1, b1)
  ELSE IF ~NumEq(a2, b2) THEN NumLt(a2, b2)
  ELSE FALSE

BoolAsInt(b) == IF b THEN 1 ELSE 0

\* the lambda of lines 94-95
age_lambda(birth_date, current_date) ==
  FSub(FSub(Some(current_date.year), Attr(birth_date, "year")),
       Some(BoolAsInt(TupleLt(Some(current_date.month), Some(current_date.day),
                              Attr(birth_date, "month"), Attr(birth_date, "day")))))

age_ranges == <<0, 17, 24, 35, 45, 60, 100>>
age_categories == <<"0-17", "18-24", "25-35", "36-45", "46-60", "60+">>
income_ranges == <<0, 10000, 20000, 30000, 40000, 60000, 80000, 100000>>
income_categories == <<"0-10k", "10k-20k", "20k-30k", "30k-40k", "40k-60k", "60k-80k", "80k+">>

\* pd.cut with its default right=True: label k when bins[k] < x <= bins[k+1]
cut_right_closed(x, bins, labels) ==
  IF IsNull(x) THEN NULL
  ELSE LET hit == {k \in 1..(Len(bins) - 1) : bins[k] < Val(x) /\ Val(x) <= bins[k + 1]}
       IN IF hit = {} THEN NULL ELSE Some(labels[CHOOSE k \in hit : TRUE])

\* pd.cut(x, bins, labels, right=False) on one cell: label k when
\* bins[k] <= x < bins[k+1]; null when x is null or in no interval
cut(x, bins, labels) ==
  IF IsNull(x) THEN NULL
  ELSE LET hit == {k \in 1..(Len(bins) - 1) : bins[k] <= Val(x) /\ Val(x) < bins[k + 1]}
       IN IF hit = {} THEN NULL ELSE Some(labels[CHOOSE k \in hit : TRUE])

derive_row(row, current_date) ==
  LET birth_date == to_datetime(row["DateOfBirth"])
      age == age_lambda(birth_date, current_date)
  IN [c \in DOMAIN row |-> IF c = "DateOfBirth" THEN birth_date ELSE row[c]]
     @@ [Age |-> age,
         AgeCategory |-> cut(age, age_ranges, age_categories),
         IncomeCategory |-> cut(row["Income"], income_ranges, income_categories)]

create_derived_features(df, current_date) ==
  [i \in DOMAIN df |-> derive_row(df[i], current_date)]

\* -------------------------------------------------- analyze_fraud_patterns
\* Sorted order of the Gender values (Python string order)
gender_sorted == <<"F", "M", "Missing">>

\* Series.sum() over the rows idx of df: nulls are skipped, an empty sum is 0
RECURSIVE sum_mule(_, _)
sum_mule(df, idx) ==
  IF idx = {} THEN 0
  ELSE LET i == CHOOSE j \in idx : TRUE
           v == df[i]["MuleAccount"]
       IN (IF IsNull(v) THEN 0 ELSE Val(v)) + sum_mule(df, idx \ {i})

\* df.groupby('AgeCategory')['MuleAccount'].sum(): AgeCategory is categorical,
\* so with observed=False every category is a group; rows with a null key
\* are dropped; groups come out in category order
groupby_age(df, observed) ==
  LET rows(a) == {i \in DOMAIN df : df[i]["AgeCategory"] = Some(a)}
      table == [k \in DOMAIN age_categories |->
                  [AgeCategory |-> age_categories[k],
                   MuleAccount |-> sum_mule(df, rows(age_categories[k]))]]
  IN SelectSeq(table, LAMBDA g : ~observed \/ rows(g.AgeCategory) # {})

\* df.groupby('Gender')['MuleAccount'].sum(): one group per non-null value,
\* in sorted order
groupby_gender(df) ==
  LET rows(s) == {i \in DOMAIN df : df[i]["Gender"] = Some(s)}
      table == [k \in DOMAIN gender_sorted |->
                  [Gender |-> gender_sorted[k],
                   MuleAccount |-> sum_mule(df, rows(gender_sorted[k]))]]
  IN SelectSeq(table, LAMBDA g : rows(g.Gender) # {})

\* groupby(..., sort=False): the groups some row has come in the order of
\* their first rows, the remaining ones after them
groupby_profile_unsorted(df, observed) ==
  LET ng == Len(gender_sorted)
      rows(a, s) == {i \in DOMAIN df : df[i]["AgeCategory"] = Some(a) /\ df[i]["Gender"] = Some(s)}
      seen(s) == \E i \in DOMAIN df : df[i]["Gender"] = Some(s)
      keyed(i) == df[i]["AgeCategory"] # NULL /\ df[i]["Gender"] # NULL
      firsts == SelectSeq([i \in DOMAIN df |-> i],
                          LAMBDA i : keyed(i) /\ ~\E j \in 1..(i - 1) :
                                       /\ df[j]["AgeCategory"] = df[i]["AgeCategory"]
                                       /\ df[j]["Gender"] = df[i]["Gender"])
      present == [k \in DOMAIN firsts |->
                    LET a == Val(df[firsts[k]]["AgeCategory"])
                        s == Val(df[firsts[k]]["Gender"])
                    IN [AgeCategory |-> a, Gender |-> s,
                        MuleAccount |-> sum_mule(df, rows(a, s))]]
      table == [k \in 1..(Len(age_categories) * ng) |->
                  [AgeCategory |-> age_categories[((k - 1) \div ng) + 1],
                   Gender |-> gender_sorted[((k - 1) % ng) + 1],
                   MuleAccount |-> 0]]
  IN present \o SelectSeq(table, LAMBDA g : ~observed /\ seen(g.Gender)
                                            /\ rows(g.AgeCategory, g.Gender) = {})

\* df.groupby(['AgeCategory', 'Gender'])['MuleAccount'].sum().reset_index():
\* groups sorted by (category, gender); with observed=False the groups are
\* all categories crossed with the Gender values present, with observed=True
\* only the pairs some row has
groupby_profile(df, observed) ==
  LET ng == Len(gender_sorted)
      rows(a, s) == {i \in DOMAIN df : df[i]["AgeCategory"] = Some(a) /\ df[i]["Gender"] = Some(s)}
      seen(s) == \E i \in DOMAIN df : df[i]["Gender"] = Some(s)
      table == [k \in 1..(Len(age_categories) * ng) |->
                  LET a == age_categories[((k - 1) \div ng) + 1]
                      s == gender_sorted[((k - 1) % ng) + 1]
                  IN [AgeCategory |-> a, Gender |-> s,
                      MuleAccount |-> sum_mule(df, rows(a, s))]]
  IN SelectSeq(table, LAMBDA g : IF observed THEN rows(g.AgeCategory, g.Gender) # {}
                                 ELSE seen(g.Gender))

\* sort_values(by='MuleAccount', ascending=False) with the default
\* kind='quicksort', which does not promise an order among equal sums.
\* "stable" keeps equal sums in the frame's order (what the small-array
\* insertion sort produces), "reversed" puts them in the opposite order; the
\* two stand for the orders a build may produce.
SortKinds == {"stable", "reversed"}

\* ascending=True in place of ascending=False
RECURSIVE sort_values_asc(_, _)
sort_values_asc(df, kind) ==
  IF df = <<>> THEN <<>>
  ELSE LET x == Head(df)
           rest == sort_values_asc(Tail(df), kind)
           ahead == {j \in DOMAIN rest :
                       \/ rest[j].MuleAccount < x.MuleAccount
                       \/ kind = "reversed" /\ rest[j].MuleAccount = x.MuleAccount}
           k == Cardinality(ahead)
       IN SubSeq(rest, 1, k) \o <<x>> \o SubSeq(rest, k + 1, Len(rest))

RECURSIVE sort_values_desc(_, _)
sort_values_desc(df, kind) ==
  IF df = <<>> THEN <<>>
  ELSE LET x == Head(df)
           rest == sort_values_desc(Tail(df), kind)
           ahead == {j \in DOMAIN rest :
                       \/ rest[j].MuleAccount > x.MuleAccount
                       \/ kind = "reversed" /\ rest[j].MuleAccount = x.MuleAccount}
           k == Cardinality(ahead)
       IN SubSeq(rest, 1, k) \o <<x>> \o SubSeq(rest, k + 1, Len(rest))

head(df, n) == SubSeq(df, 1, IF Len(df) < n THEN Len(df) ELSE n)

\* ---------------------------------------------------------------- inputs
IdentifierCells == {Some(n) : n \in 1..MaxId}

CategoricalHolderColumns ==
  {"Gender", "EmploymentStatus", "MaritalStatus", "OccupancyStatus",
   "HealthInsuranceStatus"}

\* account rows of the CSV: every value present for an odd identifier,
\* every value blank for an even one
AcctRow(id) ==
  [c \in AcctValueColumns \cup {"Identifier"} |->
     IF c = "Identifier" THEN id
     ELSE IF Val(id) % 2 = 0 THEN NULL
     ELSE Some(3)]

\* holder rows of the CSV: two complete profiles and a row of blanks
HolderKinds == {"young_f", "old_m", "blank"}
HolderRow(id, kind) ==
  [c \in HolderValueColumns \cup {"Identifier"} |->
     IF c = "Identifier" THEN id
     ELSE IF kind = "blank" THEN NULL
     ELSE IF c = "DateOfBirth"
       THEN (IF kind = "young_f" THEN Some(DobText("dmy", 15, 6, 2004))
             ELSE Some(DobText("dmy", 1, 12, 1960)))
     ELSE IF c = "Gender" THEN (IF kind = "young_f" THEN Some("F") ELSE Some("M"))
     ELSE IF c = "Income" THEN (IF kind = "young_f" THEN Some(15000) ELSE Some(85000))
     ELSE IF c \in CategoricalHolderColumns THEN Some("Yes")
     ELSE Some(1)]

FraudFlags == {NULL, Some(1)}
FraudRow(id, flag) == [Identifier |-> id, MuleAccount |-> flag]

AcctRows == {AcctRow(id) : id \in IdentifierCells}
HolderRows == {HolderRow(id, k) : id \in IdentifierCells, k \in HolderKinds}
FraudRows == {FraudRow(id, f) : id \in IdentifierCells, f \in FraudFlags}

\* the dates datetime.today() returns in the runs explored
Todays == {[year |-> 2026, month |-> 11, day |-> 1],
           [year |-> 2024, month |-> 2, day |-> 29]}
NoDate == [year |-> 0, month |-> 0, day |-> 0]

\* ----------------------------------------------------------------- state
VARIABLES
  pc,                \* position in main
  loaded,            \* the three frames load_data returned
  acct_info, holder_info, fraud_indicators,   \* main's locals
  ids_match, unique_ids,
  combined_data,
  features_in,       \* the frame as create_derived_features received it
  current_date,      \* datetime.today() as read by create_derived_features
  observed,          \* groupby's default for observed (False before pandas 3, True from it)
  sort_kind,         \* what the default sort did with equal sums
  age_cat_results, gender_breakdown, fraud_analysis

vars == <<pc, loaded, acct_info, holder_info, fraud_indicators, ids_match,
          unique_ids, combined_data, features_in, current_date, observed, sort_kind,
          age_cat_results, gender_breakdown, fraud_analysis>>

\* values of the locals main has not assigned yet
Unassigned ==
  /\ ids_match = FALSE /\ unique_ids = FALSE
  /\ features_in = <<>>
  /\ current_date = NoDate /\ observed = FALSE /\ sort_kind = "stable"
  /\ age_cat_results = <<>> /\ gender_breakdown = <<>> /\ fraud_analysis = <<>>

\* main, line 162: the frames as load_data read them
Init ==
  /\ pc = "loaded"
  /\ \E a \in 1..MaxRows :
       \E h \in 0..(MaxRows - a) :
         \E f \in 0..(MaxRows - a - h) :
           /\ acct_info \in [1..a -> AcctRows]
           /\ holder_info \in [1..h -> HolderRows]
           /\ fraud_indicators \in [1..f -> FraudRows]
  /\ loaded = [acct |-> acct_info, holder |-> holder_info, fraud |-> fraud_indicators]
  /\ combined_data = <<>>
  /\ Unassigned

\* main, lines 169-174
\* the comparison without its second link
check_ids_match_two_frames(acct, holder, fraud) ==
  Identifiers(acct) = Identifiers(holder)

check_ids_match(acct, holder, fraud) ==
  Identifiers(acct) = Identifiers(holder) /\ Identifiers(holder) = Identifiers(fraud)

check_unique_ids(acct, holder, fraud) ==
  Len(acct) = Cardinality(Identifiers(acct))

main_verify ==
  /\ pc = "loaded"
  /\ ids_match' = check_ids_match(acct_info, holder_info, fraud_indicators)
  /\ unique_ids' = check_unique_ids(acct_info, holder_info, fraud_indicators)
  /\ pc' = "verified"
  /\ UNCHANGED <<loaded, acct_info, holder_info, fraud_indicators, combined_data,
                 features_in, current_date, observed, sort_kind, age_cat_results,
                 gender_breakdown, fraud_analysis>>

\* main, line 177
main_clean ==
  /\ pc = "verified"
  /\ acct_info' = clean_acct(acct_info)
  /\ holder_info' = clean_holder(holder_info)
  /\ fraud_indicators' = clean_fraud(fraud_indicators)
  /\ pc' = "cleaned"
  /\ UNCHANGED <<loaded, ids_match, unique_ids, combined_data, features_in, current_date,
                 observed, sort_kind, age_cat_results, gender_breakdown,
                 fraud_analysis>>

\* main, line 180
main_merge ==
  /\ pc = "cleaned"
  /\ combined_data' = merge_datasets(acct_info, holder_info, fraud_indicators)
  /\ pc' = "merged"
  /\ UNCHANGED <<loaded, acct_info, holder_info, fraud_indicators, ids_match,
                 unique_ids, features_in, current_date, observed, sort_kind, age_cat_results,
                 gender_breakdown, fraud_analysis>>

\* main, line 183
main_derive ==
  /\ pc = "merged"
  /\ \E today \in Todays :
       /\ current_date' = today
       /\ features_in' = combined_data
       /\ combined_data' = create_derived_features(combined_data, today)
  /\ pc' = "derived"
  /\ UNCHANGED <<loaded, acct_info, holder_info, fraud_indicators, ids_match,
                 unique_ids, observed, sort_kind, age_cat_results,
                 gender_breakdown, fraud_analysis>>

\* main, lines 186-191
main_analyze ==
  /\ pc = "derived"
  /\ \E obs \in BOOLEAN, kind \in SortKinds :
       /\ observed' = obs
       /\ sort_kind' = kind
       /\ age_cat_results' = groupby_age(combined_data, obs)
       /\ gender_breakdown' = groupby_gender(combined_data)
       /\ fraud_analysis' = sort_values_desc(groupby_profile(combined_data, obs), kind)
  /\ pc' = "done"
  /\ UNCHANGED <<loaded, acct_info, holder_info, fraud_indicators, ids_match,
                 unique_ids, combined_data, features_in, current_date>>

Next == main_verify \/ main_clean \/ main_merge \/ main_derive \/ main_analyze

Spec == Init /\ [][Next]_vars

\* ------------------------------------- create_derived_features on its own
\* One-row frames handed to create_derived_features: the date-of-birth texts
\* and incomes a merged frame can hold.
DobDays == {1, 29, 31}
DobMonths == {1, 2, 11, 12}
DobCells ==
  {NULL, Some(MissingText), Some(DobText("iso", 0, 0, 0))}
  \cup {Some(DobText("dmy", d, m, y)) : d \in DobDays, m \in DobMonths, y \in YearLo..YearHi}

IncomeCells ==
  {NULL, Some(250000)}
  \cup {Some(income_ranges[k] + e) : k \in DOMAIN income_ranges, e \in {-1, 0, 1}}

NoFrames == [acct |-> <<>>, holder |-> <<>>, fraud |-> <<>>]

InitDerive ==
  /\ pc = "merged"
  /\ \E dob \in DobCells, income \in IncomeCells :
       combined_data = << [DateOfBirth |-> dob, Income |-> income] >>
  /\ loaded = NoFrames
  /\ acct_info = <<>> /\ holder_info = <<>> /\ fraud_indicators = <<>>
  /\ Unassigned

NextDerive == main_derive

SpecDerive == InitDerive /\ [][NextDerive]_vars

\* -------------------------------------- analyze_fraud_patterns on its own
\* Frames handed to analyze_fraud_patterns: the three columns it reads.
ProfileRows ==
  [AgeCategory : {NULL} \cup {Some(age_categories[k]) : k \in DOMAIN age_categories},
   Gender : {NULL, Some("F"), Some("M")},
   MuleAccount : {NULL, Some(1), Some(2)}]

InitAnalyze ==
  /\ pc = "derived"
  /\ combined_data \in SeqsBetween(ProfileRows, 1, MaxFrameRows)
  /\ loaded = NoFrames
  /\ acct_info = <<>> /\ holder_info = <<>> /\ fraud_indicators = <<>>
  /\ Unassigned

NextAnalyze == main_analyze

SpecAnalyze == InitAnalyze /\ [][NextAnalyze]_vars

\* ================================================================ claims
AfterVerify == pc # "loaded"
AfterClean == pc \in {"cleaned", "merged", "derived", "done"}
AfterMerge == pc \in {"merged", "derived", "done"}

NoNullIn(df, cols) == \A i \in DOMAIN df : \A c \in cols : df[i][c] # NULL

\* row "after" holds every value that row "before" holds
KeepsValues(before, after) ==
  \A c \in DOMAIN before : before[c] # NULL => after[c] = before[c]

HasDuplicateId(df) ==
  \E i, j \in DOMAIN df : i < j /\ df[i]["Identifier"] = df[j]["Identifier"]

\* C1: after clean_data the nine account columns, the twelve holder columns
\* and MuleAccount hold no null, and every value that was there before
\* cleaning is still there (row for row in the account and fraud frames, and
\* for the holder frame every row read is represented by a cleaned row and
\* every cleaned row represents a row read).
C1_CleanedNoNulls ==
  AfterClean =>
    /\ NoNullIn(acct_info, AcctValueColumns)
    /\ NoNullIn(holder_info, HolderValueColumns)
    /\ NoNullIn(fraud_indicators, {"MuleAccount"})
    /\ Len(acct_info) = Len(loaded.acct)
    /\ \A i \in DOMAIN acct_info : KeepsValues(loaded.acct[i], acct_info[i])
    /\ Len(fraud_indicators) = Len(loaded.fraud)
    /\ \A i \in DOMAIN fraud_indicators : KeepsValues(loaded.fraud[i], fraud_indicators[i])
    /\ \A j \in DOMAIN holder_info :
         \E i \in DOMAIN loaded.holder : KeepsValues(loaded.holder[i], holder_info[j])
    /\ \A i \in DOMAIN loaded.holder :
         \E j \in DOMAIN holder_info : KeepsValues(loaded.holder[i], holder_info[j])

C1_Witness ==
  /\ pc = "cleaned"
  /\ \E i \in DOMAIN loaded.acct : loaded.acct[i]["NumLoans"] = NULL
  /\ \E i \in DOMAIN loaded.acct : loaded.acct[i]["NumLoans"] # NULL
  /\ \E i \in DOMAIN loaded.holder : loaded.holder[i]["Gender"] = NULL
  /\ \E i \in DOMAIN loaded.fraud : loaded.fraud[i]["MuleAccount"] = NULL

\* C4: with identifiers unique in the de-duplicated holder frame and in the
\* fraud frame, the merged frame has one row per account row, in the account
\* frame's order, matched or not.
C4_MergeKeepsAccountRows ==
  (AfterMerge /\ ~HasDuplicateId(holder_info) /\ ~HasDuplicateId(fraud_indicators)) =>
    /\ Len(combined_data) = Len(acct_info)
    /\ \A i \in DOMAIN combined_data :
         \A c \in DOMAIN acct_info[i] : combined_data[i][c] = acct_info[i][c]

C4_Witness ==
  /\ pc = "merged"
  /\ ~HasDuplicateId(holder_info) /\ ~HasDuplicateId(fraud_indicators)
  /\ Len(acct_info) = 2
  /\ acct_info[1]["Identifier"] \notin Identifiers(holder_info)
  /\ acct_info[2]["Identifier"] \in Identifiers(holder_info)
  /\ acct_info[1]["Identifier"] \in Identifiers(fraud_indicators)
  /\ Len(combined_data) = 2

\* C5: ids_match is true exactly when every identifier of one of the three
\* frames read is an identifier of the other two.
InFrame(id, df) == \E i \in DOMAIN df : df[i]["Identifier"] = id
C5_IdsMatchIffEqualSets ==
  AfterVerify =>
    (ids_match <=>
       \A id \in IdentifierCells :
         /\ InFrame(id, loaded.acct) <=> InFrame(id, loaded.holder)
         /\ InFrame(id, loaded.holder) <=> InFrame(id, loaded.fraud)
         /\ InFrame(id, loaded.acct) <=> InFrame(id, loaded.fraud))

C5_Witness ==
  /\ pc = "verified"
  /\ ids_match
  /\ Len(loaded.acct) = 2 /\ Len(loaded.holder) = 1 /\ Len(loaded.fraud) = 1

\* C6: a duplicate Identifier in any of the three frames read makes the
\* reported "No duplicate identifiers" value false.
C6_DuplicateAnywhereReported ==
  (AfterVerify /\ (\/ HasDuplicateId(loaded.acct)
                   \/ HasDuplicateId(loaded.holder)
                   \/ HasDuplicateId(loaded.fraud)))
    => unique_ids = FALSE

\* C10: in the frame main returns, an account row with no holder match has
\* null in every holder column and one with no fraud match has a null
\* MuleAccount, not the defaults clean_data writes.
C10_UnmatchedRowsStayNull ==
  pc = "done" =>
    \A i \in DOMAIN combined_data :
      /\ ~InFrame(combined_data[i]["Identifier"], loaded.holder) =>
           \A c \in HolderValueColumns : combined_data[i][c] = NULL
      /\ ~InFrame(combined_data[i]["Identifier"], loaded.fraud) =>
           combined_data[i]["MuleAccount"] = NULL

C10_Witness ==
  /\ pc = "done"
  /\ \E i, j \in DOMAIN combined_data :
       /\ ~InFrame(combined_data[i]["Identifier"], loaded.holder)
       /\ ~InFrame(combined_data[i]["Identifier"], loaded.fraud)
       /\ combined_data[i]["Gender"] = NULL
       /\ combined_data[i]["MuleAccount"] = NULL
       /\ combined_data[j]["Gender"] = Some("Missing")
       /\ combined_data[j]["MuleAccount"] = Some(0)

\* C2: age 17 is categorised "0-17", age 18 "18-24", ages 100 and -1 get no
\* category; every age outside [0,100) gets none and every age inside gets
\* one of the six labels.
C2_AgeBuckets ==
  pc = "derived" =>
    \A i \in DOMAIN combined_data :
      LET age == combined_data[i]["Age"]
          cat == combined_data[i]["AgeCategory"]
      IN age # NULL =>
           /\ Val(age) = 17 => cat = Some("0-17")
           /\ Val(age) = 18 => cat = Some("18-24")
           /\ Val(age) = 100 => cat = NULL
           /\ Val(age) = -1 => cat = NULL
           /\ (Val(age) < 0 \/ Val(age) >= 100) => cat = NULL
           /\ (Val(age) >= 0 /\ Val(age) < 100) =>
                cat \in {Some(age_categories[k]) : k \in DOMAIN age_categories}

\* C3: IncomeCategory follows left-inclusive, right-exclusive intervals over
\* 0, 10000, 20000, 30000, 40000, 60000, 80000, 100000; incomes below 0
\* (the -1 default included) and from 100000 up get no category.
C3_IncomeBuckets ==
  pc = "derived" =>
    \A i \in DOMAIN combined_data :
      LET income == combined_data[i]["Income"]
          cat == combined_data[i]["IncomeCategory"]
          x == Val(income)
      IN income # NULL =>
           cat = (IF x < 0 THEN NULL
                  ELSE IF x < 10000 THEN Some("0-10k")
                  ELSE IF x < 20000 THEN Some("10k-20k")
                  ELSE IF x < 30000 THEN Some("20k-30k")
                  ELSE IF x < 40000 THEN Some("30k-40k")
                  ELSE IF x < 60000 THEN Some("40k-60k")
                  ELSE IF x < 80000 THEN Some("60k-80k")
                  ELSE IF x < 100000 THEN Some("80k+")
                  ELSE NULL)

C3_Witness ==
  /\ pc = "derived"
  /\ combined_data[1]["Income"] = Some(10000)
  /\ combined_data[1]["IncomeCategory"] = Some("10k-20k")

\* C7: a date of birth that spells a calendar day as day/month/year gives
\* Age = current year - birth year, less 1 exactly when (current month,
\* current day) is earlier than (birth month, birth day); a null or
\* unparseable date of birth, the "Missing" default included, gives a null Age.
MonthLengths == <<31, 28, 31, 30, 31, 30, 31, 31, 30, 31, 30, 31>>
SpellsCalendarDay(t) ==
  /\ t.shape = "dmy"
  /\ t.m >= 1 /\ t.m <= 12
  /\ t.d >= 1
  /\ t.d <= MonthLengths[t.m]
            + (IF t.m = 2 /\ t.y % 4 = 0 /\ (t.y % 100 # 0 \/ t.y % 400 = 0) THEN 1 ELSE 0)

C7_AgeFromDateOfBirth ==
  pc = "derived" =>
    \A i \in DOMAIN combined_data :
      LET dob == features_in[i]["DateOfBirth"]
          age == combined_data[i]["Age"]
      IN IF dob # NULL /\ SpellsCalendarDay(Val(dob))
         THEN LET t == Val(dob)
                  earlier == \/ current_date.month < t.m
                             \/ current_date.month = t.m /\ current_date.day < t.d
              IN age = Some(current_date.year - t.y - (IF earlier THEN 1 ELSE 0))
         ELSE age = NULL

C7_Witness ==
  /\ pc = "derived"
  /\ features_in[1]["DateOfBirth"] = Some(DobText("dmy", 29, 11, 2000))
  /\ current_date.year = 2026 /\ current_date.month = 11 /\ current_date.day = 1
  /\ combined_data[1]["Age"] = Some(25)

\* C8: the combination table holds, for each {age category, gender} group,
\* the sum of MuleAccount over the frame's rows of that group, in
\* non-increasing order of the sum, so no group outside the five reported has
\* a larger sum than a reported one.
RowsOfGroup(g) ==
  {i \in DOMAIN combined_data :
     /\ combined_data[i]["AgeCategory"] = Some(g.AgeCategory)
     /\ combined_data[i]["Gender"] = Some(g.Gender)}

FlagTotal(rows) ==
  Cardinality({i \in rows : combined_data[i]["MuleAccount"] = Some(1)})
  + 2 * Cardinality({i \in rows : combined_data[i]["MuleAccount"] = Some(2)})

C8_RankedGroupSums ==
  pc = "done" =>
    /\ \A k \in DOMAIN fraud_analysis :
         fraud_analysis[k].MuleAccount = FlagTotal(RowsOfGroup(fraud_analysis[k]))
    /\ \A i \in DOMAIN combined_data :
         (combined_data[i]["AgeCategory"] # NULL /\ combined_data[i]["Gender"] # NULL) =>
           Cardinality({k \in DOMAIN fraud_analysis : i \in RowsOfGroup(fraud_analysis[k])}) = 1
    /\ \A j, k \in DOMAIN fraud_analysis :
         j < k => fraud_analysis[j].MuleAccount >= fraud_analysis[k].MuleAccount
    /\ \A j \in DOMAIN head(fraud_analysis, 5) :
         \A k \in DOMAIN fraud_analysis :
           k > 5 => ~(fraud_analysis[k].MuleAccount > fraud_analysis[j].MuleAccount)

C8_Witness ==
  /\ pc = "done"
  /\ Len(combined_data) = 2
  /\ combined_data[1]["MuleAccount"] = Some(1)
  /\ combined_data[2]["MuleAccount"] = Some(2)
  /\ Len(fraud_analysis) > 5
  /\ fraud_analysis[1].MuleAccount = 2
  /\ fraud_analysis[2].MuleAccount = 1
  /\ fraud_analysis[6].MuleAccount = 0

\* C9 as stated: with a sort that keeps equal sums in the order received, of
\* two groups with equal sums the one whose first row comes earlier in the
\* frame is ranked first.
FirstRow(g) == CHOOSE i \in RowsOfGroup(g) : \A j \in RowsOfGroup(g) : i <= j

C9_TiesFollowRowOrder ==
  (pc = "done" /\ sort_kind = "stable") =>
    \A j, k \in DOMAIN fraud_analysis :
      (/\ j < k
       /\ fraud_analysis[j].MuleAccount = fraud_analysis[k].MuleAccount
       /\ RowsOfGroup(fraud_analysis[j]) # {}
       /\ RowsOfGroup(fraud_analysis[k]) # {})
        => FirstRow(fraud_analysis[j]) < FirstRow(fraud_analysis[k])

\* C9 amended: when the sort leaves equal sums in the order it received them,
\* of two groups with equal sums the one with the smaller group key (age
\* category in label order, then gender in sorted order) is ranked first,
\* whatever the frame's row order.
Position(seq, v) == CHOOSE k \in DOMAIN seq : seq[k] = v

KeyBefore(g, h) ==
  \/ Position(age_categories, g.AgeCategory) < Position(age_categories, h.AgeCategory)
  \/ /\ g.AgeCategory = h.AgeCategory
     /\ Position(<<"F", "M", "Missing">>, g.Gender) < Position(<<"F", "M", "Missing">>, h.Gender)

C9_TiesFollowKeyOrder ==
  (pc = "done" /\ sort_kind = "stable") =>
    \A j, k \in DOMAIN fraud_analysis :
      (j < k /\ fraud_analysis[j].MuleAccount = fraud_analysis[k].MuleAccount)
        => KeyBefore(fraud_analysis[j], fraud_analysis[k])

C9_Witness ==
  /\ pc = "done"
  /\ sort_kind = "stable"
  /\ Len(combined_data) = 2
  /\ combined_data[1] = [AgeCategory |-> Some("25-35"), Gender |-> Some("M"), MuleAccount |-> Some(1)]
  /\ combined_data[2] = [AgeCategory |-> Some("0-17"), Gender |-> Some("F"), MuleAccount |-> Some(1)]
  /\ fraud_analysis[1].AgeCategory = "0-17"
  /\ fraud_analysis[2].AgeCategory = "25-35"

====
